---- MODULE Spec2Model ----
(***************************************************************************)
(* Model of tools/scrape_api_docs.py: one headless browser page is driven  *)
(* over the eight URLs of DOCS_URLS and then over NOTION_URL; each fixed   *)
(* URL is scraped by scrape_page (goto, wait_for_selector, evaluate, save) *)
(* under one try/except, the Notion page is scraped inline in main with no *)
(* guard, then the browser is closed and a summary is printed.             *)
(*                                                                         *)
(* Every await on the browser and every file operation is a step that may  *)
(* raise.  The pages served are inputs: a document is a title and a list   *)
(* of top-level body elements, each with a list of leaf children.          *)
(***************************************************************************)
EXTENDS Naturals, Sequences, FiniteSets, TLC

(* ------------------------------------------------------------------ *)
(* Bounds of the exploration                                          *)
(* ------------------------------------------------------------------ *)

\* At most this many deviations from the nominal run are explored in one
\* run: a deviation is a step of scrape_page that raises, or a page served
\* that is not the nominal document.  An unreachable host (hostDown) and the
\* exceptions of main's own steps are not counted.
MaxDeviations == 2

(* ------------------------------------------------------------------ *)
(* Program constants                                                  *)
(* ------------------------------------------------------------------ *)

\* A URL is kept as the list of its "/"-separated segments.
DOCS_URLS ==
    << <<"https:", "", "hyperping.com", "docs", "api", "overview">>,
       <<"https:", "", "hyperping.com", "docs", "api", "monitors">>,
       <<"https:", "", "hyperping.com", "docs", "api", "statuspages">>,
       <<"https:", "", "hyperping.com", "docs", "api", "maintenance">>,
       <<"https:", "", "hyperping.com", "docs", "api", "incidents">>,
       <<"https:", "", "hyperping.com", "docs", "api", "outages">>,
       <<"https:", "", "hyperping.com", "docs", "api", "healthchecks">>,
       <<"https:", "", "hyperping.com", "docs", "api", "reports">> >>

NOTION_URL ==
    <<"https:", "", "hyperping.notion.site",
      "Hyperping-API-documentation-a0dc48fb818e4542a8f7fb4163ede2c3">>

NOTION_FILE == "docs_scraped/notion_api_docs.txt"

\* The selector list of wait_for_selector, and the priority chain of the
\* in-page script.
Selectors == <<"main", "article", "documentation", "notion-page-content">>

(* ------------------------------------------------------------------ *)
(* main's per-iteration names                                         *)
(* ------------------------------------------------------------------ *)

\* url.split("/")[-1]
PageName(url) == url[Len(url)]

\* f"docs_scraped/{page_name}.json"
OutputFile(url) == "docs_scraped/" \o PageName(url) \o ".json"

UrlIdx == 1..Len(DOCS_URLS)

JsonFiles == {OutputFile(DOCS_URLS[k]) : k \in UrlIdx}

FileNames == JsonFiles \cup {NOTION_FILE}

(* ------------------------------------------------------------------ *)
(* Documents                                                          *)
(* ------------------------------------------------------------------ *)

Leaf(tag, txt) == [tag |-> tag, txt |-> txt]

Node(sel, kids) == [sel |-> sel, kids |-> kids]

IsScriptOrStyle(tag) == tag \in {"script", "style"}

\* The nominal page: a main region with text, a script and a style inside it,
\* and one script next to it in the body.
NominalDoc ==
    [title |-> "Hyperping API",
     body  |-> << Node("main", << Leaf("p", "a"), Leaf("script", "js"),
                                   Leaf("p", "b"), Leaf("style", "css") >>),
                  Node("script", <<>>) >>]

\* Other pages a server may send.
OddDocs ==
    { \* no title; a documentation region with text, then an article that
      \* holds only a script
      [title |-> "",
       body  |-> << Node("documentation", << Leaf("p", "d") >>),
                    Node("article", << Leaf("script", "js") >>) >>],
      \* no content container at all
      [title |-> "Not found",
       body  |-> << Node("div", << Leaf("p", "x"), Leaf("script", "js") >>) >>],
      \* a Notion-style page
      [title |-> "Notion",
       body  |-> << Node("style", <<>>),
                    Node("notion-page-content",
                         << Leaf("style", "css"), Leaf("p", "n") >>) >>] }

PageDocs == {NominalDoc} \cup OddDocs

\* The nominal Notion page.
NominalNotionDoc ==
    [title |-> "Notion",
     body  |-> << Node("notion-page-content",
                       << Leaf("p", "n"), Leaf("script", "js") >>) >>]

\* What the Notion site may serve: the nominal page, or a blank one.
NotionDocs == {NominalNotionDoc, [title |-> "", body |-> <<>>]}

BlankDoc == [title |-> "", body |-> <<>>]

(* ------------------------------------------------------------------ *)
(* The in-page script of scrape_page                                  *)
(* ------------------------------------------------------------------ *)

RECURSIVE FirstIndex(_, _, _)
FirstIndex(body, sel, k) ==
    IF k > Len(body) THEN 0
    ELSE IF body[k].sel = sel THEN k
    ELSE FirstIndex(body, sel, k + 1)

\* document.querySelector(sel): the first matching element in document
\* order, as its position in the body, 0 for null.
QuerySelector(doc, sel) == FirstIndex(doc.body, sel, 1)

\* querySelector('main') || querySelector('article') || ... || document.body
\* (0 stands for document.body).
RECURSIVE FirstMatch(_, _)
FirstMatch(doc, k) ==
    IF k > Len(Selectors) THEN 0
    ELSE IF QuerySelector(doc, Selectors[k]) # 0
         THEN QuerySelector(doc, Selectors[k])
         ELSE FirstMatch(doc, k + 1)

SelectContainer(doc) == FirstMatch(doc, 1)

\* Mutant of RemoveScripts: the forEach removes nothing.
RemoveScriptsKeepsAll(kids) == kids

\* The children left after main.querySelectorAll('script, style')
\* .forEach(s => s.remove()).
RemoveScripts(kids) == SelectSeq(kids, LAMBDA l : ~IsScriptOrStyle(l.tag))

\* innerText: the text of the rendered children, in order (script and style
\* are not rendered).
RECURSIVE InnerText(_)
InnerText(kids) ==
    IF kids = <<>> THEN ""
    ELSE (IF IsScriptOrStyle(Head(kids).tag) THEN "" ELSE Head(kids).txt)
         \o InnerText(Tail(kids))

\* innerHTML: the child elements' tags, in order.
InnerHTML(kids) == [k \in 1..Len(kids) |-> kids[k].tag]

\* The same two for document.body, whose children are the top-level nodes.
RECURSIVE BodyText(_)
BodyText(body) ==
    IF body = <<>> THEN ""
    ELSE (IF IsScriptOrStyle(Head(body).sel) THEN "" ELSE InnerText(Head(body).kids))
         \o BodyText(Tail(body))

RECURSIVE BodyHTML(_)
BodyHTML(body) ==
    IF body = <<>> THEN <<>>
    ELSE <<Head(body).sel>> \o InnerHTML(Head(body).kids) \o BodyHTML(Tail(body))

\* document.body with every script and style element under it removed.
StripBody(body) ==
    LET kept == SelectSeq(body, LAMBDA n : ~IsScriptOrStyle(n.sel))
    IN  [k \in 1..Len(kept) |-> Node(kept[k].sel, RemoveScripts(kept[k].kids))]

\* The document after the script has run: the removals are made on the
\* selected element of the page itself.
DocAfterExtract(doc) ==
    LET m == SelectContainer(doc)
    IN  IF m = 0
        THEN [doc EXCEPT !.body = StripBody(doc.body)]
        ELSE [doc EXCEPT !.body[m].kids = RemoveScripts(doc.body[m].kids)]

\* The object the script returns: {text, html, title}.
ExtractContent(doc) ==
    LET m     == SelectContainer(doc)
        after == DocAfterExtract(doc)
    IN  IF m = 0
        THEN [text  |-> BodyText(after.body),
              html  |-> BodyHTML(after.body),
              title |-> doc.title]
        ELSE [text  |-> InnerText(after.body[m].kids),
              html  |-> InnerHTML(after.body[m].kids),
              title |-> doc.title]

\* wait_for_selector("main, article, .documentation, .notion-page-content"):
\* some element of the page matches one of the selectors.
SelectorPresent(doc) ==
    \E k \in 1..Len(doc.body) :
        \E s \in 1..Len(Selectors) : doc.body[k].sel = Selectors[s]

\* Mutant of ScrapedContent: 'url' is taken from the first task instead of
\* the call's own argument.
ScrapedContentStaleUrl(url, content) ==
    << <<"url", DOCS_URLS[1]>>, <<"title", content.title>>,
       <<"text", content.text>>, <<"html", content.html>> >>

\* The dict handed to json.dump, as its key/value pairs in insertion order.
ScrapedContent(url, content) ==
    << <<"url", url>>, <<"title", content.title>>,
       <<"text", content.text>>, <<"html", content.html>> >>

\* Python truthiness of scrape_page's return value in "if content:".
Truthy(ret) == ~ret.none /\ ret.text # ""

(* ------------------------------------------------------------------ *)
(* State                                                              *)
(* ------------------------------------------------------------------ *)

VARIABLES
    pc,             \* where main (or the scrape_page it awaits) stands
    i,              \* position of the for loop in DOCS_URLS
    page,           \* the one page object: the URL it shows and its document
    content,        \* scrape_page's local "content"
    notion_content, \* main's local "notion_content"
    results,        \* main's dict "results": page name -> text
    files,          \* the files of docs_scraped/
    out,            \* the lines printed so far
    pw,             \* browsers, contexts and pages acquired, close() calls,
                    \* and the async_playwright scope
    exit,           \* "running", or how the process ended
    raisedAt,       \* the step whose exception left main, "" for none
    navLog,         \* history: every URL handed to page.goto, in order
    failedAt,       \* history: per fixed URL, the step of scrape_page that raised
    hostDown,       \* input: hyperping.com is unreachable during the run
    budget          \* deviations still to be explored

vars == <<pc, i, page, content, notion_content, results, files, out, pw, exit,
          raisedAt, navLog, failedAt, hostDown, budget>>

NoContent == [text |-> "", html |-> <<>>, title |-> ""]

None == [none |-> TRUE, text |-> ""]

Returned(text) == [none |-> FALSE, text |-> text]

Absent == [st |-> "absent", data |-> <<>>]

\* A file left by an earlier run.
Old == [st |-> "old", data |-> <<>>]

\* open(name, 'w') has created or truncated the file and nothing complete
\* was written to it.
Truncated == [st |-> "trunc", data |-> <<>>]

Written(data) == [st |-> "full", data |-> data]

Line(k, a) == [k |-> k, a |-> a]

\* The state when asyncio.run(main()) has entered "async with
\* async_playwright()": docs_scraped/ exists, empty or filled by an earlier run.
Init ==
    /\ pc = "launch"
    /\ i = 1
    /\ page = [url |-> <<>>, doc |-> BlankDoc]
    /\ content = NoContent
    /\ notion_content = ""
    /\ results = <<>>
    /\ files \in {[f \in FileNames |-> Absent], [f \in FileNames |-> Old]}
    /\ out = <<>>
    /\ pw = [browsers |-> 0, contexts |-> 0, pages |-> 0, closes |-> 0,
             scope |-> "open"]
    /\ exit = "running"
    /\ raisedAt = ""
    /\ navLog = <<>>
    /\ failedAt = [k \in UrlIdx |-> ""]
    /\ hostDown \in BOOLEAN
    /\ budget = MaxDeviations

(* ------------------------------------------------------------------ *)
(* Leaving main by an exception, returning from scrape_page           *)
(* ------------------------------------------------------------------ *)

\* An exception nothing catches: it leaves the async_playwright scope and
\* asyncio.run, and the interpreter exits non-zero.
Raise(at, pwNow) ==
    /\ pc' = "exited"
    /\ exit' = "nonzero"
    /\ raisedAt' = at
    /\ pw' = [pwNow EXCEPT !.scope = "exited"]

\* "content = await scrape_page(...); if content: results[page_name] = content"
\* and the step to the next entry of the list.
ReturnToMain(ret) ==
    /\ results' = IF Truthy(ret)
                  THEN (PageName(DOCS_URLS[i]) :> ret.text) @@ results
                  ELSE results
    /\ i' = i + 1
    /\ pc' = "loop"
    /\ content' = NoContent

\* Mutant of ScrapeFail: the except branch prints and re-raises.
ScrapeFailRaises(at) ==
    /\ out' = Append(out, Line("error", DOCS_URLS[i]))
    /\ failedAt' = [failedAt EXCEPT ![i] = at]
    /\ Raise(at, pw)
    /\ UNCHANGED <<results, i, content>>

\* Mutant of ScrapeFail: the except branch returns None without printing.
ScrapeFailSilent(at) ==
    /\ out' = out
    /\ failedAt' = [failedAt EXCEPT ![i] = at]
    /\ ReturnToMain(None)
    /\ UNCHANGED <<pw, exit, raisedAt>>

\* The except branch of scrape_page: one error line, return None.
ScrapeFail(at) ==
    /\ out' = Append(out, Line("error", DOCS_URLS[i]))
    /\ failedAt' = [failedAt EXCEPT ![i] = at]
    /\ ReturnToMain(None)
    /\ UNCHANGED <<pw, exit, raisedAt>>

(* ------------------------------------------------------------------ *)
(* main: acquiring the browser                                        *)
(* ------------------------------------------------------------------ *)

Launch ==
    /\ pc = "launch"
    /\ \/ /\ pw' = [pw EXCEPT !.browsers = @ + 1]
          /\ pc' = "new_context"
          /\ UNCHANGED <<exit, raisedAt>>
       \/ Raise("launch", pw)
    /\ UNCHANGED <<i, page, content, notion_content, results, files, out,
                   navLog, failedAt, hostDown, budget>>

NewContext ==
    /\ pc = "new_context"
    /\ \/ /\ pw' = [pw EXCEPT !.contexts = @ + 1]
          /\ pc' = "new_page"
          /\ UNCHANGED <<exit, raisedAt>>
       \/ Raise("new_context", pw)
    /\ UNCHANGED <<i, page, content, notion_content, results, files, out,
                   navLog, failedAt, hostDown, budget>>

NewPage ==
    /\ pc = "new_page"
    /\ \/ /\ pw' = [pw EXCEPT !.pages = @ + 1]
          /\ pc' = "loop"
          /\ UNCHANGED <<exit, raisedAt>>
       \/ Raise("new_page", pw)
    /\ UNCHANGED <<i, page, content, notion_content, results, files, out,
                   navLog, failedAt, hostDown, budget>>

(* ------------------------------------------------------------------ *)
(* main: the loop over DOCS_URLS, and scrape_page                     *)
(* ------------------------------------------------------------------ *)

\* The head of the for loop: the next URL enters scrape_page, which prints
\* "Scraping: <url>"; after the last one main prints the Notion header.
ForLoop ==
    /\ pc = "loop"
    /\ IF i <= Len(DOCS_URLS)
       THEN /\ out' = Append(out, Line("scraping", DOCS_URLS[i]))
            /\ pc' = "goto"
       ELSE /\ out' = Append(out, Line("scraping_notion", NOTION_URL))
            /\ pc' = "n_goto"
    /\ UNCHANGED <<i, page, content, notion_content, results, files, pw, exit,
                   raisedAt, navLog, failedAt, hostDown, budget>>

\* await page.goto(url, wait_until="networkidle", timeout=30000)
Goto ==
    /\ pc = "goto"
    /\ navLog' = Append(navLog, DOCS_URLS[i])
    /\ \/ /\ hostDown \/ budget > 0
          /\ budget' = IF hostDown THEN budget ELSE budget - 1
          /\ ScrapeFail("goto")
          /\ UNCHANGED page
       \/ /\ ~hostDown
          /\ \E d \in PageDocs :
                /\ d = NominalDoc \/ budget > 0
                /\ budget' = IF d = NominalDoc THEN budget ELSE budget - 1
                /\ page' = [url |-> DOCS_URLS[i], doc |-> d]
          /\ pc' = "wait"
          /\ UNCHANGED <<i, content, results, out, failedAt, pw, exit, raisedAt>>
    /\ UNCHANGED <<notion_content, files, hostDown>>

\* await page.wait_for_selector("main, article, ...", timeout=10000)
WaitForSelector ==
    /\ pc = "wait"
    /\ \/ /\ SelectorPresent(page.doc)
          /\ pc' = "evaluate"
          /\ UNCHANGED <<i, content, results, out, failedAt, budget, pw, exit,
                      raisedAt>>
       \/ /\ ~SelectorPresent(page.doc)
          /\ ScrapeFail("wait")
          /\ UNCHANGED budget
       \/ /\ SelectorPresent(page.doc)
          /\ budget > 0
          /\ budget' = budget - 1
          /\ ScrapeFail("wait")
    /\ UNCHANGED <<page, notion_content, files, navLog, hostDown>>

\* content = await page.evaluate("() => { ... }")
Evaluate ==
    /\ pc = "evaluate"
    /\ \/ /\ content' = ExtractContent(page.doc)
          /\ page' = [page EXCEPT !.doc = DocAfterExtract(page.doc)]
          /\ pc' = "save"
          /\ UNCHANGED <<i, results, out, failedAt, budget, pw, exit, raisedAt>>
       \/ /\ budget > 0
          /\ budget' = budget - 1
          /\ ScrapeFail("evaluate")
          /\ UNCHANGED page
    /\ UNCHANGED <<notion_content, files, navLog, hostDown>>

\* with open(output_file, 'w') as f: json.dump({...}, f, ...), then the
\* "Saved" line and "return content['text']".
Save ==
    /\ pc = "save"
    /\ \/ /\ files' = [files EXCEPT ![OutputFile(DOCS_URLS[i])] =
                          Written(ScrapedContent(DOCS_URLS[i], content))]
          /\ out' = Append(out, Line("saved", OutputFile(DOCS_URLS[i])))
          /\ ReturnToMain(Returned(content.text))
          /\ UNCHANGED <<failedAt, budget, pw, exit, raisedAt>>
       \/ \* open() raises: nothing was created
          /\ budget > 0
          /\ budget' = budget - 1
          /\ ScrapeFail("open")
          /\ UNCHANGED files
       \/ \* the file is open and truncated when building or writing the
          \* record raises
          /\ budget > 0
          /\ budget' = budget - 1
          /\ files' = [files EXCEPT ![OutputFile(DOCS_URLS[i])] = Truncated]
          /\ ScrapeFail("dump")
    /\ UNCHANGED <<page, notion_content, navLog, hostDown>>

(* ------------------------------------------------------------------ *)
(* main: the Notion page, close, summary                              *)
(* ------------------------------------------------------------------ *)

\* await page.goto(NOTION_URL, wait_until="networkidle", timeout=30000)
NotionGoto ==
    /\ pc = "n_goto"
    /\ navLog' = Append(navLog, NOTION_URL)
    /\ \/ /\ \E d \in NotionDocs :
                /\ d = NominalNotionDoc \/ budget > 0
                /\ budget' = IF d = NominalNotionDoc THEN budget ELSE budget - 1
                /\ page' = [url |-> NOTION_URL, doc |-> d]
          /\ pc' = "n_settle"
          /\ UNCHANGED <<pw, exit, raisedAt>>
       \/ /\ Raise("n_goto", pw)
          /\ UNCHANGED <<page, budget>>
    /\ UNCHANGED <<i, content, notion_content, results, files, out, failedAt,
                   hostDown>>

\* await page.wait_for_timeout(3000)
NotionSettle ==
    /\ pc = "n_settle"
    /\ \/ /\ pc' = "n_evaluate"
          /\ UNCHANGED <<pw, exit, raisedAt>>
       \/ Raise("n_settle", pw)
    /\ UNCHANGED <<i, page, content, notion_content, results, files, out,
                   navLog, failedAt, hostDown, budget>>

\* notion_content = await page.evaluate("document.body.innerText")
NotionEvaluate ==
    /\ pc = "n_evaluate"
    /\ \/ /\ notion_content' = BodyText(page.doc.body)
          /\ pc' = "n_save"
          /\ UNCHANGED <<pw, exit, raisedAt>>
       \/ /\ Raise("n_evaluate", pw)
          /\ UNCHANGED notion_content
    /\ UNCHANGED <<i, page, content, results, files, out, navLog, failedAt,
                   hostDown, budget>>

\* with open("docs_scraped/notion_api_docs.txt", 'w') as f:
\*     f.write(notion_content), then the "Saved Notion docs" line.
NotionSave ==
    /\ pc = "n_save"
    /\ \/ /\ files' = [files EXCEPT ![NOTION_FILE] = Written(notion_content)]
          /\ out' = Append(out, Line("saved_notion", NOTION_FILE))
          /\ pc' = "close"
          /\ UNCHANGED <<pw, exit, raisedAt>>
       \/ \* open() raises
          /\ Raise("n_open", pw)
          /\ UNCHANGED <<files, out>>
       \/ \* f.write raises on the open, truncated file
          /\ files' = [files EXCEPT ![NOTION_FILE] = Truncated]
          /\ Raise("n_write", pw)
          /\ UNCHANGED out
    /\ UNCHANGED <<i, page, content, notion_content, results, navLog, failedAt,
                   hostDown, budget>>

\* len(results)
ResultCount == Cardinality(DOMAIN results)

\* The four lines of the summary.
SummaryLines ==
    << Line("rule", ""), Line("count", ResultCount),
       Line("outdir", "./docs_scraped/"), Line("rule", "") >>

\* Mutant of Close: the call is left out.
CloseSkipped ==
    /\ pc = "close"
    /\ pc' = "summary"
    /\ UNCHANGED <<i, page, content, notion_content, results, files, out, pw,
                   exit, raisedAt, navLog, failedAt, hostDown, budget>>

\* Mutant of Close: the summary is printed before the browser is closed.
CloseSummaryFirst ==
    /\ pc = "close"
    /\ out' = out \o SummaryLines
    /\ \/ /\ pw' = [pw EXCEPT !.closes = @ + 1, !.scope = "exited"]
          /\ pc' = "exited"
          /\ exit' = "zero"
          /\ UNCHANGED raisedAt
       \/ Raise("close", [pw EXCEPT !.closes = @ + 1])
    /\ UNCHANGED <<i, page, content, notion_content, results, files, navLog,
                   failedAt, hostDown, budget>>

\* await browser.close()
Close ==
    /\ pc = "close"
    /\ \/ /\ pw' = [pw EXCEPT !.closes = @ + 1]
          /\ pc' = "summary"
          /\ UNCHANGED <<exit, raisedAt>>
       \/ Raise("close", [pw EXCEPT !.closes = @ + 1])
    /\ UNCHANGED <<i, page, content, notion_content, results, files, out,
                   navLog, failedAt, hostDown, budget>>

\* The four summary lines; main returns, the async_playwright scope is left
\* and the process exits 0.
Summary ==
    /\ pc = "summary"
    /\ out' = out \o SummaryLines
    /\ pc' = "exited"
    /\ exit' = "zero"
    /\ pw' = [pw EXCEPT !.scope = "exited"]
    /\ UNCHANGED <<i, page, content, notion_content, results, files, raisedAt,
                   navLog, failedAt, hostDown, budget>>

Next ==
    \/ Launch
    \/ NewContext
    \/ NewPage
    \/ ForLoop
    \/ Goto
    \/ WaitForSelector
    \/ Evaluate
    \/ Save
    \/ NotionGoto
    \/ NotionSettle
    \/ NotionEvaluate
    \/ NotionSave
    \/ Close
    \/ Summary

Spec == Init /\ [][Next]_vars

(* ------------------------------------------------------------------ *)
(* Vocabulary of the properties                                       *)
(* ------------------------------------------------------------------ *)

SetupSteps == {"launch", "new_context", "new_page"}

TrailingSteps == {"n_goto", "n_settle", "n_evaluate", "n_open", "n_write"}

\* The output file of the k-th fixed URL.
OutputFiles == [k \in UrlIdx |-> OutputFile(DOCS_URLS[k])]

\* The file was created or truncated by this run.
Touched(f) == files[f].st \in {"trunc", "full"}

\* The visit of the k-th fixed URL is over.
Visited(k) == k < i

Succeeded(k) == Visited(k) /\ failedAt[k] = ""

Failed(k) == Visited(k) /\ failedAt[k] # ""

\* The printed lines of kind k about a.
LinesOf(k, a) == {j \in 1..Len(out) : out[j].k = k /\ out[j].a = a}

LinesOfKind(k) == {j \in 1..Len(out) : out[j].k = k}

SummaryPrinted == LinesOfKind("count") # {}

NavCount(url) == Cardinality({j \in 1..Len(navLog) : navLog[j] = url})

IsPrefix(s, t) == Len(s) <= Len(t) /\ \A j \in 1..Len(s) : s[j] = t[j]

(* ------------------------------------------------------------------ *)
(* C1                                                                 *)
(* ------------------------------------------------------------------ *)

\* C1: for every fixed URL whose scrape_page failed at page.goto or at
\* page.wait_for_selector, the run has not opened or written that URL's
\* JSON file, exactly one error line names the URL, scrape_page returned
\* None (nothing recorded in results, no exception left it) and the loop went
\* on: the next entry of DOCS_URLS is the next URL navigated.
C1_EarlyFailureSkipsFile ==
    \A k \in UrlIdx :
        failedAt[k] \in {"goto", "wait"} =>
            /\ ~Touched(OutputFiles[k])
            /\ Cardinality(LinesOf("error", DOCS_URLS[k])) = 1
            /\ PageName(DOCS_URLS[k]) \notin DOMAIN results
            /\ raisedAt \notin {"goto", "wait"}
            /\ Visited(k)
            /\ (i <= Len(DOCS_URLS) => exit = "running")
            /\ (k < Len(DOCS_URLS) /\ Len(navLog) > k
                    => navLog[k + 1] = DOCS_URLS[k + 1])

\* Two early failures, one of each kind, and the entry after them saved.
C1_Witness ==
    /\ failedAt[1] = "goto"
    /\ failedAt[2] = "wait"
    /\ files[OutputFiles[3]].st = "full"

(* ------------------------------------------------------------------ *)
(* C2                                                                 *)
(* ------------------------------------------------------------------ *)

\* C2: once the visit of a fixed URL is over, its JSON file has been created
\* or overwritten by this run if and only if scrape_page completed for it;
\* a failure at any step leaves no file created or truncated.
C2_FileIffSuccess ==
    \A k \in UrlIdx :
        Visited(k) => (Touched(OutputFiles[k]) <=> failedAt[k] = "")

(* ------------------------------------------------------------------ *)
(* C3                                                                 *)
(* ------------------------------------------------------------------ *)

\* The written record has exactly the fields url, title, text, html.
HasTheFourFields(data) ==
    /\ Len(data) = 4
    /\ data[1][1] = "url"
    /\ data[2][1] = "title"
    /\ data[3][1] = "text"
    /\ data[4][1] = "html"

\* What the in-page script can return: the extraction of a page that passed
\* the selector wait.
Extractions == {ExtractContent(d) : d \in {e \in PageDocs : SelectorPresent(e)}}

\* C3 as stated: after a successful scrape_page the file holds a record with
\* exactly the fields url, title, text, html, url being the URL navigated in
\* that call, and all four fields non-empty.
C3_RecordAllNonEmpty ==
    \A k \in UrlIdx :
        Succeeded(k) =>
            LET file == files[OutputFiles[k]]
            IN  /\ file.st = "full"
                /\ HasTheFourFields(file.data)
                /\ file.data[1][2] = navLog[k]
                /\ file.data[1][2] # <<>>
                /\ file.data[2][2] # ""
                /\ file.data[3][2] # ""
                /\ file.data[4][2] # <<>>

\* C3 amended: after a successful scrape_page the file holds a record with
\* exactly the fields url, title, text, html; url is non-empty and is the
\* URL navigated in that call, whose last segment names the file; title,
\* text and html are what the in-page script returned for the page served
\* and may be empty.
C3_RecordMatchesUrl ==
    \A k \in UrlIdx :
        Succeeded(k) =>
            LET file == files[OutputFiles[k]]
            IN  /\ file.st = "full"
                /\ HasTheFourFields(file.data)
                /\ file.data[1][2] = navLog[k]
                /\ file.data[1][2] = DOCS_URLS[k]
                /\ file.data[1][2] # <<>>
                /\ OutputFile(file.data[1][2]) = OutputFiles[k]
                /\ [title |-> file.data[2][2], text |-> file.data[3][2],
                    html |-> file.data[4][2]] \in Extractions

\* The second URL saved with an empty title and an empty text, after the
\* first was saved with all fields filled.
C3_Witness ==
    /\ Succeeded(1)
    /\ Succeeded(2)
    /\ files[OutputFiles[1]].data[3][2] # ""
    /\ files[OutputFiles[2]].st = "full"
    /\ files[OutputFiles[2]].data[2][2] = ""
    /\ files[OutputFiles[2]].data[3][2] = ""

(* ------------------------------------------------------------------ *)
(* C4                                                                 *)
(* ------------------------------------------------------------------ *)

\* The numbers printed in "Scraped N pages successfully".
PrintedCounts == {out[j].a : j \in LinesOfKind("count")}

SucceededUrls == {k \in UrlIdx : Succeeded(k)}

SavedJsonFiles == {f \in JsonFiles : files[f].st = "full"}

\* C4: once the summary is printed, its number N is len(results) and is the
\* number of fixed URLs whose scrape succeeded, which is the number of JSON
\* files this run saved; when all eight succeeded, eight files and N = 8.
C4_CountIsSuccesses ==
    SummaryPrinted =>
        /\ PrintedCounts = {ResultCount}
        /\ ResultCount = Cardinality(SucceededUrls)
        /\ ResultCount = Cardinality(SavedJsonFiles)
        /\ (SucceededUrls = UrlIdx =>
                Cardinality(SavedJsonFiles) = 8 /\ PrintedCounts = {8})

(* ------------------------------------------------------------------ *)
(* C5                                                                 *)
(* ------------------------------------------------------------------ *)

\* Every URL the run navigates, in order.
Itinerary == DOCS_URLS \o <<NOTION_URL>>

FailedUrls == {k \in UrlIdx : Failed(k)}

TouchedJsonFiles == {f \in JsonFiles : Touched(f)}

\* C5: the URLs handed to page.goto are DOCS_URLS in list order and then the
\* Notion URL, each once, whatever entries failed, on the one page; a visit
\* is over before the next begins; once the Notion page was navigated every
\* fixed URL was; and a run with exactly one failing entry has produced 7
\* JSON files and printed one error line when the list is done.
C5_EachOnceInOrder ==
    /\ IsPrefix(navLog, Itinerary)
    /\ \A j \in 1..Len(navLog) : NavCount(navLog[j]) = 1
    /\ pw.pages <= 1
    /\ (pc \in {"goto", "wait", "evaluate", "save"} => Len(navLog) \in {i - 1, i})
    /\ (i > Len(DOCS_URLS) /\ pc # "loop" /\ pc # "n_goto"
            => Len(navLog) = Len(Itinerary))
    /\ (i > Len(DOCS_URLS) /\ Cardinality(FailedUrls) = 1
            => /\ Cardinality(TouchedJsonFiles) = 7
               /\ Cardinality(LinesOfKind("error")) = 1)

(* ------------------------------------------------------------------ *)
(* C6                                                                 *)
(* ------------------------------------------------------------------ *)

\* The run reached the Notion step: browser, context and page were acquired
\* and the loop over DOCS_URLS is over.
ReachedTrailing == i > Len(DOCS_URLS) /\ pc # "loop"

\* C6 as stated: the exit status of a run that reached the Notion step
\* depends on that step alone: the process exits non-zero if and only if one
\* of its four steps raised, and exits 0 when they all succeeded.
C6_ExitByTrailingStepOnly ==
    pc = "exited" /\ ReachedTrailing =>
        /\ (exit = "nonzero" <=> raisedAt \in TrailingSteps)
        /\ (raisedAt \notin TrailingSteps => exit = "zero")

\* C6 amended: in a run that acquired the browser, context and page, no
\* outcome of the fixed-list URLs ends the process; it exits 0 exactly when
\* the four Notion steps and the browser.close() after them all succeeded,
\* and non-zero, by an uncaught exception, exactly when one of these five
\* raised.
C6_ExitByTrailingStepOrClose ==
    /\ (pw.pages = 1 /\ i <= Len(DOCS_URLS) => exit = "running" /\ raisedAt = "")
    /\ (pc = "exited" /\ pw.pages = 1 =>
            /\ ReachedTrailing
            /\ exit \in {"zero", "nonzero"}
            /\ (exit = "nonzero" <=> raisedAt \in TrailingSteps \cup {"close"})
            /\ (exit = "zero" <=>
                    /\ raisedAt = ""
                    /\ files[NOTION_FILE].st = "full"
                    /\ pw.closes = 1))

\* All eight fixed URLs saved, the Notion page saved, and the run ended
\* non-zero in browser.close().
C6_Witness ==
    /\ pc = "exited"
    /\ SucceededUrls = UrlIdx
    /\ files[NOTION_FILE].st = "full"
    /\ raisedAt = "close"
    /\ exit = "nonzero"

(* ------------------------------------------------------------------ *)
(* C7                                                                 *)
(* ------------------------------------------------------------------ *)

\* C7: when a step of the Notion visit raised, the run ended non-zero and
\* has neither created nor truncated notion_api_docs.txt; the file is
\* written by a run only when the whole step succeeded.
C7_NoNotionFileOnFailure ==
    /\ (raisedAt \in TrailingSteps =>
            exit = "nonzero" /\ ~Touched(NOTION_FILE))
    /\ (Touched(NOTION_FILE) => raisedAt \notin TrailingSteps)

(* ------------------------------------------------------------------ *)
(* C8                                                                 *)
(* ------------------------------------------------------------------ *)

\* C8 as stated, its last part: a run that ended without invoking
\* browser.close() is a run in which a step of the Notion visit raised.
C8_NoCloseOnlyIfTrailingRaised ==
    pc = "exited" /\ pw.closes = 0 => raisedAt \in TrailingSteps

\* C8 amended: at most one browser, one context and one page are acquired,
\* and exactly one of each before the first visit.  browser.close() is
\* invoked at most once, only after the Notion file was written and before
\* any summary line, and exactly once in every run whose Notion step
\* succeeded, whatever the fixed-list URLs did.  The runs that end without
\* invoking it are those in which the Notion step raised or in which
\* acquiring the browser, the context or the page raised; there release is
\* left to the exit of the async_playwright scope.
C8_CloseOnceAfterTrailing ==
    /\ pw.browsers <= 1 /\ pw.contexts <= 1 /\ pw.pages <= 1
    /\ (navLog # <<>> => pw.browsers = 1 /\ pw.contexts = 1 /\ pw.pages = 1)
    /\ pw.closes <= 1
    /\ (pw.closes = 1 =>
            /\ files[NOTION_FILE].st = "full"
            /\ Len(navLog) = Len(Itinerary)
            /\ raisedAt \in {"", "close"})
    /\ (SummaryPrinted => pw.closes = 1)
    /\ (pc \in {"summary", "exited"} /\ raisedAt \notin SetupSteps \cup TrailingSteps
            => pw.closes = 1)
    /\ (pc = "exited" =>
            /\ pw.scope = "exited"
            /\ (pw.closes = 0 <=> raisedAt \in SetupSteps \cup TrailingSteps))

\* A run with two failed fixed URLs that closed the browser once and
\* printed the summary.
C8_Witness ==
    /\ pc = "exited"
    /\ exit = "zero"
    /\ Cardinality(FailedUrls) = 2
    /\ pw.closes = 1
    /\ SummaryPrinted

(* ------------------------------------------------------------------ *)
(* C9                                                                 *)
(* ------------------------------------------------------------------ *)

\* The step in which page.evaluate returned in scrape_page.
ExtractStep == pc = "evaluate" /\ pc' = "save"

NoScriptOrStyle(html) == \A j \in 1..Len(html) : ~IsScriptOrStyle(html[j])

\* C9 as stated: the extraction leaves the document of the live page as it
\* was, and the returned html holds no script or style element.
C9_LivePageUnchanged ==
    [][ExtractStep =>
            /\ page'.doc = page.doc
            /\ NoScriptOrStyle(content'.html)]_vars

\* C9 amended: the extraction removes the script and style elements from
\* the selected container of the live page itself: afterwards that container
\* (one that matched the selector list) holds its other children, in order,
\* and nothing else of the document (title, the other elements, their
\* order) has changed; the returned html is that of the container after the
\* removal and holds no script or style element.
C9_ScriptsRemovedFromLiveContainer ==
    [][ExtractStep =>
            LET m      == SelectContainer(page.doc)
                before == page.doc.body
                after  == page'.doc.body
            IN  /\ m \in 1..Len(before)
                /\ page'.url = page.url
                /\ page'.doc.title = page.doc.title
                /\ Len(after) = Len(before)
                /\ \A n \in 1..Len(before) : n # m => after[n] = before[n]
                /\ after[m].sel = before[m].sel
                /\ after[m].kids =
                       SelectSeq(before[m].kids,
                                 LAMBDA l : l.tag # "script" /\ l.tag # "style")
                /\ content'.html = [j \in 1..Len(after[m].kids) |-> after[m].kids[j].tag]
                /\ NoScriptOrStyle(content'.html)
                /\ content'.title = page.doc.title]_vars

\* The nominal page after the extraction on the first URL: the script and
\* the style of its main element are gone from the live page, the script
\* beside main is still there.
C9_Witness ==
    /\ pc = "save"
    /\ page.url = DOCS_URLS[1]
    /\ page.doc # NominalDoc
    /\ page.doc.body = << Node("main", << Leaf("p", "a"), Leaf("p", "b") >>),
                          Node("script", <<>>) >>
    /\ content.html = <<"p", "p">>

(* ------------------------------------------------------------------ *)
(* C10                                                                *)
(* ------------------------------------------------------------------ *)

\* C10: the summary is printed at most once, and only after the Notion file
\* was saved and browser.close() returned; when a step of the Notion visit
\* or browser.close() raised, no summary line is printed, also when all
\* eight fixed URLs were saved.
C10_SummaryOnlyAfterClose ==
    LET summary == {j \in 1..Len(out) : out[j].k \in {"rule", "count", "outdir"}}
    IN  /\ (summary # {} =>
                /\ Cardinality(LinesOfKind("count")) = 1
                /\ Cardinality(LinesOfKind("outdir")) = 1
                /\ Cardinality(LinesOfKind("rule")) = 2
                /\ files[NOTION_FILE].st = "full"
                /\ \E n \in LinesOf("saved_notion", NOTION_FILE) :
                       \A j \in summary : n < j
                /\ pw.closes = 1
                /\ raisedAt = "")
        /\ (raisedAt \in TrailingSteps \cup {"close"} => summary = {})

\* browser.close() raised after all eight fixed URLs and the Notion page
\* were saved: the run is over and no summary was printed.
C10_Witness ==
    /\ pc = "exited"
    /\ raisedAt = "close"
    /\ \A f \in FileNames : files[f].st = "full"
    /\ ~SummaryPrinted

====
